---- MODULE Spec2Model ----
(***************************************************************************)
(* Model of the two provisioning scripts of the repository:                *)
(*   vpc.py               one VPC, one subnet, one instance                 *)
(*   vpc-loadbalancer.py  one VPC, two subnets, two instances, an ALB       *)
(* Each script is a straight-line sequence of provider calls.  A run is a   *)
(* walk of the program counter pc over the call sites of main(); every      *)
(* provider call either returns or raises.  The key pair held by the        *)
(* provider and the local key file outlive a run; everything else is        *)
(* local to one run.                                                        *)
(***************************************************************************)
EXTENDS Integers, Sequences, FiniteSets, TLC

VARIABLES
  variant,   \* which script runs: "single" (vpc.py) or "lb" (vpc-loadbalancer.py)
  pc,        \* index of the next call site of main()
  status,    \* "running" | "done" | "caught" | "propagated"
  locals,    \* the local variables of main()
  log,       \* the provider calls issued by this run, in order, with their outcome
  cloud,     \* the resources allocated in the account by the calls of this run
  keyPairs,  \* the key pairs held by the provider (outlive a run)
  keyFile,   \* the local file KEY_FILE (outlives a run)
  images,    \* the response of the last describe_images call
  printed    \* what main() printed when it ended

vars == <<variant, pc, status, locals, log, cloud, keyPairs, keyFile, images, printed>>

----------------------------------------------------------------------------
\* Bounds of the model.

\* largest number of images in a describe_images response
MaxImages == 2

----------------------------------------------------------------------------
\* Constants of the scripts.

REGION == <<"us-east-1">>
KEY_NAME == "ec2-keypair"
KEY_FILE == <<KEY_NAME, ".pem">>
VPC_CIDR == "10.0.0.0/16"
SUBNET_CIDR == "10.0.1.0/24"
SUBNET_A_CIDR == "10.0.1.0/24"
SUBNET_B_CIDR == "10.0.2.0/24"
AVAILABILITY_ZONE == REGION \o <<"a">>
AZ_A == REGION \o <<"a">>
\* (faulty variant: the second zone copied from the first)
AZ_B_SameZone == REGION \o <<"a">>
AZ_B == REGION \o <<"b">>
APP_PORT == 5000
SSH_PORT == 22
HTTP_PORT == 80
ANYWHERE == "0.0.0.0/0"

\* An unbound / None value.  Identifiers are tuples <<kind, n>>, so None is a tuple too.
None == <<"None">>
EmptyString == <<>>

----------------------------------------------------------------------------
\* The image resolver.

\* CreationDate values: ISO timestamps are strings, compared character by character.
Dates == {<<1>>, <<1, 0>>, <<2>>}

\* Python's str comparison a < b.
StrLess(a, b) ==
  \E k \in 1..(Len(b)) :
     /\ k <= Len(a) + 1
     /\ \A j \in 1..(k - 1) : a[j] = b[j]
     /\ (k = Len(a) + 1 \/ a[k] < b[k])

\* The responses describe_images can give: up to MaxImages images, the i-th
\* with ImageId <<"ami", i>>.
ImageResponses ==
  UNION { { [i \in 1..n |-> [ImageId |-> <<"ami", i>>, CreationDate |-> d[i]]] :
              d \in [1..n -> Dates] } : n \in 0..MaxImages }

RECURSIVE MaxFrom(_, _, _)
MaxFrom(imgs, i, best) ==
  IF i > Len(imgs) THEN best
  ELSE IF StrLess(best.CreationDate, imgs[i].CreationDate)
       THEN MaxFrom(imgs, i + 1, imgs[i])
       ELSE MaxFrom(imgs, i + 1, best)

\* (the last image of the response, whatever its date)
LastImage(imgs) == imgs[Len(imgs)]

\* max(images, key=lambda i: i["CreationDate"]): the first image of maximal key.
MaxByCreationDate(imgs) == MaxFrom(imgs, 2, imgs[1])

----------------------------------------------------------------------------
\* Errors.  cls is the Python class, code the provider's error code.

DuplicateError == [cls |-> "ClientError", code |-> "InvalidKeyPair.Duplicate"]
\* what a provider call can raise besides the duplicate-name error
ProviderErrors ==
  { [cls |-> "ClientError", code |-> "UnauthorizedOperation"],
    [cls |-> "BotoCoreError", code |-> "EndpointConnectionError"] }
WaiterErrors == { [cls |-> "WaiterError", code |-> "Timeout"] }
FileErrors == { [cls |-> "OSError", code |-> "open"],
                [cls |-> "OSError", code |-> "write"],
                [cls |-> "OSError", code |-> "chmod"] }
NoImagesError(v) ==
  [cls |-> IF v = "single" THEN "ValueError" ELSE "RuntimeError", code |-> "NoImages"]

IsClientError(e) == e.cls = "ClientError"
\* "InvalidKeyPair.Duplicate" in str(e)
IsDuplicate(e) == e.code = "InvalidKeyPair.Duplicate"

----------------------------------------------------------------------------
\* The call sites of main(), in program order.  Each site names the
\* operation, the local variables whose values it passes and the local
\* variable it assigns.

\* (faulty variant of ProgSingle: the default route created before the gateway is attached)
ProgSingle_RouteFirst == <<
  [op |-> "create_key_pair"],
  [op |-> "create_vpc", cidr |-> VPC_CIDR, dst |-> "vpc_id"],
  [op |-> "wait_vpc_available", vpc |-> "vpc_id"],
  [op |-> "modify_vpc_attribute", vpc |-> "vpc_id", attr |-> "EnableDnsSupport"],
  [op |-> "modify_vpc_attribute", vpc |-> "vpc_id", attr |-> "EnableDnsHostnames"],
  [op |-> "create_subnet", vpc |-> "vpc_id", cidr |-> SUBNET_CIDR,
     az |-> AVAILABILITY_ZONE, dst |-> "subnet_id"],
  [op |-> "modify_subnet_attribute", subnet |-> "subnet_id"],
  [op |-> "create_internet_gateway", dst |-> "igw_id"],
  [op |-> "create_route_table", vpc |-> "vpc_id", dst |-> "rtb_id"],
  [op |-> "create_route", rtb |-> "rtb_id", gw |-> "igw_id"],
  [op |-> "attach_internet_gateway", igw |-> "igw_id", vpc |-> "vpc_id"],
  [op |-> "associate_route_table", rtb |-> "rtb_id", subnet |-> "subnet_id"],
  [op |-> "create_security_group", vpc |-> "vpc_id", name |-> "sg", dst |-> "sg_id"],
  [op |-> "authorize_security_group_ingress", sg |-> "sg_id",
     ports |-> {SSH_PORT, APP_PORT}],
  [op |-> "latest_ubuntu_ami", dst |-> "ami_id"],
  [op |-> "run_instances", ami |-> "ami_id", subnet |-> "subnet_id", sg |-> "sg_id",
     dst |-> "instance_id", append |-> FALSE],
  [op |-> "wait_instance_running", insts |-> "instance_id"],
  [op |-> "describe_instances", inst |-> "instance_id", dst |-> "public_ip"],
  [op |-> "print_results"] >>

\* vpc.py main(), lines 72-190
ProgSingle == <<
  [op |-> "create_key_pair"],
  [op |-> "create_vpc", cidr |-> VPC_CIDR, dst |-> "vpc_id"],
  [op |-> "wait_vpc_available", vpc |-> "vpc_id"],
  [op |-> "modify_vpc_attribute", vpc |-> "vpc_id", attr |-> "EnableDnsSupport"],
  [op |-> "modify_vpc_attribute", vpc |-> "vpc_id", attr |-> "EnableDnsHostnames"],
  [op |-> "create_subnet", vpc |-> "vpc_id", cidr |-> SUBNET_CIDR,
     az |-> AVAILABILITY_ZONE, dst |-> "subnet_id"],
  [op |-> "modify_subnet_attribute", subnet |-> "subnet_id"],
  [op |-> "create_internet_gateway", dst |-> "igw_id"],
  [op |-> "attach_internet_gateway", igw |-> "igw_id", vpc |-> "vpc_id"],
  [op |-> "create_route_table", vpc |-> "vpc_id", dst |-> "rtb_id"],
  [op |-> "create_route", rtb |-> "rtb_id", gw |-> "igw_id"],
  [op |-> "associate_route_table", rtb |-> "rtb_id", subnet |-> "subnet_id"],
  [op |-> "create_security_group", vpc |-> "vpc_id", name |-> "sg", dst |-> "sg_id"],
  [op |-> "authorize_security_group_ingress", sg |-> "sg_id",
     ports |-> {SSH_PORT, APP_PORT}],
  [op |-> "latest_ubuntu_ami", dst |-> "ami_id"],
  [op |-> "run_instances", ami |-> "ami_id", subnet |-> "subnet_id", sg |-> "sg_id",
     dst |-> "instance_id", append |-> FALSE],
  [op |-> "wait_instance_running", insts |-> "instance_id"],
  [op |-> "describe_instances", inst |-> "instance_id", dst |-> "public_ip"],
  [op |-> "print_results"] >>

\* vpc-loadbalancer.py main(), lines 64-176; the two loops over
\* (subnet_a, subnet_b) are unrolled.
ProgLB == <<
  [op |-> "ensure_key_pair"],
  [op |-> "latest_ubuntu_ami", dst |-> "ami_id"],
  [op |-> "create_vpc", cidr |-> VPC_CIDR, dst |-> "vpc_id"],
  [op |-> "modify_vpc_attribute", vpc |-> "vpc_id", attr |-> "EnableDnsSupport"],
  [op |-> "modify_vpc_attribute", vpc |-> "vpc_id", attr |-> "EnableDnsHostnames"],
  [op |-> "create_internet_gateway", dst |-> "igw_id"],
  [op |-> "attach_internet_gateway", igw |-> "igw_id", vpc |-> "vpc_id"],
  [op |-> "create_route_table", vpc |-> "vpc_id", dst |-> "rtb_id"],
  [op |-> "create_route", rtb |-> "rtb_id", gw |-> "igw_id"],
  [op |-> "create_subnet", vpc |-> "vpc_id", cidr |-> SUBNET_A_CIDR,
     az |-> AZ_A, dst |-> "subnet_a"],
  [op |-> "create_subnet", vpc |-> "vpc_id", cidr |-> SUBNET_B_CIDR,
     az |-> AZ_B, dst |-> "subnet_b"],
  [op |-> "modify_subnet_attribute", subnet |-> "subnet_a"],
  [op |-> "associate_route_table", rtb |-> "rtb_id", subnet |-> "subnet_a"],
  [op |-> "modify_subnet_attribute", subnet |-> "subnet_b"],
  [op |-> "associate_route_table", rtb |-> "rtb_id", subnet |-> "subnet_b"],
  [op |-> "create_security_group", vpc |-> "vpc_id", name |-> "inst-sg", dst |-> "sg_ec2"],
  [op |-> "authorize_security_group_ingress", sg |-> "sg_ec2",
     ports |-> {SSH_PORT, APP_PORT}],
  [op |-> "create_security_group", vpc |-> "vpc_id", name |-> "alb-sg", dst |-> "sg_alb"],
  [op |-> "authorize_security_group_ingress", sg |-> "sg_alb", ports |-> {HTTP_PORT}],
  [op |-> "run_instances", ami |-> "ami_id", subnet |-> "subnet_a", sg |-> "sg_ec2",
     dst |-> "inst_ids", append |-> TRUE],
  [op |-> "run_instances", ami |-> "ami_id", subnet |-> "subnet_b", sg |-> "sg_ec2",
     dst |-> "inst_ids", append |-> TRUE],
  [op |-> "wait_instance_running", insts |-> "inst_ids"],
  [op |-> "create_target_group", vpc |-> "vpc_id", port |-> APP_PORT, dst |-> "tg_arn"],
  [op |-> "register_targets", tg |-> "tg_arn", insts |-> "inst_ids", port |-> APP_PORT],
  [op |-> "create_load_balancer", subnets |-> <<"subnet_a", "subnet_b">>,
     sg |-> "sg_alb", dst |-> "alb"],
  [op |-> "create_listener", lb |-> "alb", port |-> HTTP_PORT, tg |-> "tg_arn"],
  [op |-> "print_results"] >>

Prog(v) == IF v = "single" THEN ProgSingle ELSE ProgLB

\* The call site the run is at.
Site == Prog(variant)[pc]

At(op) == status = "running" /\ pc <= Len(Prog(variant)) /\ Site.op = op

----------------------------------------------------------------------------
\* State of a fresh run.

NoLocals ==
  [ vpc_id |-> None, subnet_id |-> None, igw_id |-> None, rtb_id |-> None,
    sg_id |-> None, ami_id |-> None, instance_id |-> None, public_ip |-> None,
    subnet_a |-> None, subnet_b |-> None, sg_ec2 |-> None, sg_alb |-> None,
    inst_ids |-> <<>>, tg_arn |-> None,
    alb |-> [LoadBalancerArn |-> None, DNSName |-> None] ]

NoResources ==
  [ vpcs |-> {}, vpcAttrs |-> {}, subnets |-> {}, mapPublic |-> {},
    igws |-> {}, attached |-> {}, rtbs |-> {}, routes |-> {}, assocs |-> {},
    sgs |-> {}, ingress |-> {}, instances |-> {}, running |-> {},
    tgs |-> {}, targets |-> {}, lbs |-> {}, listeners |-> {} ]

\* KEY_FILE does not exist.
NoFile == [content |-> None, mode |-> "none"]
NothingPrinted == [tag |-> "nothing", value |-> None]

\* A fresh identifier of a kind, given the resources of that kind so far.
NewId(kind, existing) == <<kind, Cardinality(existing) + 1>>

Init ==
  /\ variant \in {"single", "lb"}
  /\ pc = 1
  /\ status = "running"
  /\ locals = NoLocals
  /\ log = <<>>
  /\ cloud = NoResources
  /\ keyPairs = {}
  /\ keyFile = NoFile
  /\ images = <<>>
  /\ printed = NothingPrinted

----------------------------------------------------------------------------
\* Returning from and raising out of a call site.

Entry(args, ret, res) == [op |-> Site.op, args |-> args, ret |-> ret, res |-> res]

\* (a variant of MainExcept without the generic except clause)
HandlerOnlyClientError(v, e) ==
  IF v = "single" /\ IsClientError(e)
  THEN [status |-> "caught", printed |-> [tag |-> "AWS error:", value |-> <<e.code>>]]
  ELSE [status |-> "propagated", printed |-> NothingPrinted]

\* What becomes of an exception e that leaves the body of main().
\* vpc.py wraps the body in try / except ClientError / except Exception;
\* vpc-loadbalancer.py has no handler.
MainExcept(v, e) ==
  IF v = "single"
  THEN IF IsClientError(e)
       THEN [status |-> "caught", printed |-> [tag |-> "AWS error:", value |-> <<e.code>>]]
       ELSE [status |-> "caught", printed |-> [tag |-> "Unexpected error:", value |-> <<e.code>>]]
  ELSE [status |-> "propagated", printed |-> NothingPrinted]

\* The call site returns: its result is assigned and main() goes on.
Return(args, ret, cloud2, locals2) ==
  /\ log' = Append(log, Entry(args, ret, "ok"))
  /\ cloud' = cloud2
  /\ locals' = locals2
  /\ pc' = pc + 1
  /\ UNCHANGED <<variant, status, keyPairs, keyFile, images, printed>>

\* (faulty variant of Raise: resources torn down and locals dropped on the way out)
RaiseAndRollBack(args, e) ==
  /\ log' = Append(log, Entry(args, {}, e.code))
  /\ status' = MainExcept(variant, e).status
  /\ printed' = MainExcept(variant, e).printed
  /\ locals' = NoLocals
  /\ cloud' = NoResources
  /\ UNCHANGED <<variant, pc, keyPairs, keyFile, images>>

\* The call site raises e: main() is left at this statement.  Nothing is
\* deleted and no local is rebound on the way out.
Raise(args, e) ==
  /\ log' = Append(log, Entry(args, {}, e.code))
  /\ status' = MainExcept(variant, e).status
  /\ printed' = MainExcept(variant, e).printed
  /\ UNCHANGED <<variant, pc, locals, cloud, keyPairs, keyFile, images>>

\* A call of the ec2 / elbv2 client.
ProviderCall(args, ret, cloud2, locals2) ==
  \/ Return(args, ret, cloud2, locals2)
  \/ \E e \in ProviderErrors : Raise(args, e)

\* A call of a waiter.
WaiterCall(args, cloud2) ==
  \/ Return(args, {}, cloud2, locals)
  \/ \E e \in WaiterErrors : Raise(args, e)

----------------------------------------------------------------------------
\* The key pair.

Ok == [cls |-> "none", code |-> "ok"]

\* KeyMaterial of a key pair the provider creates for a name.
NewKeyMaterial(name) == <<"KeyMaterial", name>>

KeyNames == { k.KeyName : k \in keyPairs }

\* What ec2.create_key_pair(KeyName=KEY_NAME) can answer.
CreateKeyPairResponses ==
  (IF KEY_NAME \in KeyNames THEN {DuplicateError} ELSE {Ok}) \cup ProviderErrors

\* (faulty variant: the duplicate-name error is re-raised too)
ExceptAlwaysRaises(e) == "raise"

\* (faulty variant: every ClientError is swallowed)
ExceptSwallowsClientErrors(e) == IF IsClientError(e) THEN "continue" ELSE "raise"

\* The except clause of create_key_pair / ensure_key_pair.
KeyPairExcept(e) ==
  IF IsClientError(e)
  THEN IF IsDuplicate(e) THEN "continue" ELSE "raise"
  ELSE "raise"

\* KEY_FILE after the body of the try block, given the provider's answer r:
\* it is opened for writing only once create_key_pair has returned.
FileAfterCreate(f, r) ==
  IF r.code = "ok"
  THEN [content |-> NewKeyMaterial(KEY_NAME), mode |-> "0o400"]
  ELSE f

\* KEY_FILE when open, write or chmod raises.
FileAfterError(f, e) ==
  CASE e.code = "open"  -> f
    [] e.code = "write" -> [content |-> EmptyString, mode |-> "default"]
    [] e.code = "chmod" -> [content |-> NewKeyMaterial(KEY_NAME), mode |-> "default"]

\* create_key_pair() of vpc.py and ensure_key_pair() of vpc-loadbalancer.py.
KeyPairStep ==
  \E r \in CreateKeyPairResponses :
    IF r = Ok
    THEN /\ keyPairs' = keyPairs \cup
              {[KeyName |-> KEY_NAME, KeyMaterial |-> NewKeyMaterial(KEY_NAME)]}
         /\ log' = Append(log, Entry({}, {}, "ok"))
         /\ \/ /\ keyFile' = FileAfterCreate(keyFile, r)
               /\ pc' = pc + 1
               /\ UNCHANGED <<status, printed>>
            \/ \E e \in FileErrors :
               /\ keyFile' = FileAfterError(keyFile, e)
               /\ status' = MainExcept(variant, e).status
               /\ printed' = MainExcept(variant, e).printed
               /\ pc' = pc
         /\ UNCHANGED <<variant, locals, cloud, images>>
    ELSE IF KeyPairExcept(r) = "continue"
    THEN /\ log' = Append(log, Entry({}, {}, r.code))
         /\ keyFile' = FileAfterCreate(keyFile, r)
         /\ pc' = pc + 1
         /\ UNCHANGED <<variant, status, locals, cloud, keyPairs, images, printed>>
    ELSE Raise({}, r)

create_key_pair == At("create_key_pair") /\ KeyPairStep

ensure_key_pair == At("ensure_key_pair") /\ KeyPairStep

----------------------------------------------------------------------------
\* The image resolver as a step of main().

ImageIds(imgs) == { imgs[i].ImageId : i \in 1..Len(imgs) }

\* (faulty variant: takes the response to be sorted by date)
ResolveLast(imgs) ==
  IF imgs = <<>>
  THEN [raised |-> TRUE, id |-> None]
  ELSE [raised |-> FALSE, id |-> LastImage(imgs).ImageId]

\* (faulty variant: a hard-coded image when none matches)
ResolveWithFallback(imgs) ==
  IF imgs = <<>>
  THEN [raised |-> FALSE, id |-> <<"ami", 0>>]
  ELSE [raised |-> FALSE, id |-> MaxByCreationDate(imgs).ImageId]

\* latest_ubuntu_ami() applied to the "Images" list of the response:
\* raises on an empty list, else returns the ImageId of max(...).
ResolveImage(imgs) ==
  IF imgs = <<>>
  THEN [raised |-> TRUE, id |-> None]
  ELSE [raised |-> FALSE, id |-> MaxByCreationDate(imgs).ImageId]

latest_ubuntu_ami ==
  /\ At("latest_ubuntu_ami")
  /\ \/ \E e \in ProviderErrors : Raise({}, e)
     \/ \E resp \in ImageResponses :
          /\ images' = resp
          /\ IF ResolveImage(resp).raised
             THEN /\ log' = Append(log, Entry({}, ImageIds(resp), NoImagesError(variant).code))
                  /\ status' = MainExcept(variant, NoImagesError(variant)).status
                  /\ printed' = MainExcept(variant, NoImagesError(variant)).printed
                  /\ UNCHANGED <<variant, pc, locals, cloud, keyPairs, keyFile>>
             ELSE /\ log' = Append(log, Entry({}, ImageIds(resp), "ok"))
                  /\ locals' = [locals EXCEPT ![Site.dst] = ResolveImage(resp).id]
                  /\ pc' = pc + 1
                  /\ UNCHANGED <<variant, status, cloud, keyPairs, keyFile, printed>>

----------------------------------------------------------------------------
\* The network.

create_vpc ==
  /\ At("create_vpc")
  /\ LET id == NewId("vpc", cloud.vpcs)
     IN ProviderCall({}, {id},
          [cloud EXCEPT !.vpcs = @ \cup {[VpcId |-> id, CidrBlock |-> Site.cidr]}],
          [locals EXCEPT ![Site.dst] = id])

wait_vpc_available ==
  /\ At("wait_vpc_available")
  /\ WaiterCall({locals[Site.vpc]}, cloud)

modify_vpc_attribute ==
  /\ At("modify_vpc_attribute")
  /\ ProviderCall({locals[Site.vpc]}, {},
       [cloud EXCEPT !.vpcAttrs = @ \cup {<<locals[Site.vpc], Site.attr>>}],
       locals)

create_subnet ==
  /\ At("create_subnet")
  /\ LET id == NewId("subnet", cloud.subnets)
     IN ProviderCall({locals[Site.vpc]}, {id},
          [cloud EXCEPT !.subnets = @ \cup
             {[SubnetId |-> id, VpcId |-> locals[Site.vpc], CidrBlock |-> Site.cidr,
               AvailabilityZone |-> Site.az]}],
          [locals EXCEPT ![Site.dst] = id])

\* (faulty variant: the attribute is not set)
SubnetAttributeSkipped(c, subnet) == c

\* modify_subnet_attribute(SubnetId=subnet, MapPublicIpOnLaunch={"Value": True})
SubnetAttributeSet(c, subnet) == [c EXCEPT !.mapPublic = @ \cup {subnet}]

modify_subnet_attribute ==
  /\ At("modify_subnet_attribute")
  /\ ProviderCall({locals[Site.subnet]}, {},
       SubnetAttributeSet(cloud, locals[Site.subnet]), locals)

create_internet_gateway ==
  /\ At("create_internet_gateway")
  /\ LET id == NewId("igw", cloud.igws)
     IN ProviderCall({}, {id},
          [cloud EXCEPT !.igws = @ \cup {id}],
          [locals EXCEPT ![Site.dst] = id])

attach_internet_gateway ==
  /\ At("attach_internet_gateway")
  /\ ProviderCall({locals[Site.igw], locals[Site.vpc]}, {},
       [cloud EXCEPT !.attached = @ \cup {<<locals[Site.igw], locals[Site.vpc]>>}],
       locals)

create_route_table ==
  /\ At("create_route_table")
  /\ LET id == NewId("rtb", cloud.rtbs)
     IN ProviderCall({locals[Site.vpc]}, {id},
          [cloud EXCEPT !.rtbs = @ \cup {[RouteTableId |-> id, VpcId |-> locals[Site.vpc]]}],
          [locals EXCEPT ![Site.dst] = id])

create_route ==
  /\ At("create_route")
  /\ ProviderCall({locals[Site.rtb], locals[Site.gw]}, {},
       [cloud EXCEPT !.routes = @ \cup
          {[RouteTableId |-> locals[Site.rtb], DestinationCidrBlock |-> ANYWHERE,
            GatewayId |-> locals[Site.gw]]}],
       locals)

associate_route_table ==
  /\ At("associate_route_table")
  /\ ProviderCall({locals[Site.rtb], locals[Site.subnet]}, {},
       [cloud EXCEPT !.assocs = @ \cup {<<locals[Site.rtb], locals[Site.subnet]>>}],
       locals)

----------------------------------------------------------------------------
\* The security groups.

create_security_group ==
  /\ At("create_security_group")
  /\ LET id == NewId("sg", cloud.sgs)
     IN ProviderCall({locals[Site.vpc]}, {id},
          [cloud EXCEPT !.sgs = @ \cup
             {[GroupId |-> id, VpcId |-> locals[Site.vpc], GroupName |-> Site.name]}],
          [locals EXCEPT ![Site.dst] = id])

authorize_security_group_ingress ==
  /\ At("authorize_security_group_ingress")
  /\ ProviderCall({locals[Site.sg]}, {},
       [cloud EXCEPT !.ingress = @ \cup
          { [GroupId |-> locals[Site.sg], IpProtocol |-> "tcp", FromPort |-> p,
             ToPort |-> p, CidrIp |-> ANYWHERE] : p \in Site.ports }],
       locals)

----------------------------------------------------------------------------
\* The instances.

\* The address an instance gets at launch: a public one only in a subnet
\* whose MapPublicIpOnLaunch is set.
PublicIpAtLaunch(c, subnet, n) == IF subnet \in c.mapPublic THEN <<"ip", n>> ELSE None

run_instances ==
  /\ At("run_instances")
  /\ LET id  == NewId("i", cloud.instances)
         ins == [InstanceId |-> id, ImageId |-> locals[Site.ami],
                 KeyName |-> KEY_NAME, SubnetId |-> locals[Site.subnet],
                 SecurityGroupIds |-> {locals[Site.sg]},
                 PublicIpAddress |->
                   PublicIpAtLaunch(cloud, locals[Site.subnet], id[2])]
     IN ProviderCall({locals[Site.ami], locals[Site.subnet], locals[Site.sg]}, {id},
          [cloud EXCEPT !.instances = @ \cup {ins}],
          IF Site.append
          THEN [locals EXCEPT ![Site.dst] = Append(@, id)]
          ELSE [locals EXCEPT ![Site.dst] = id])

\* The InstanceIds a waiter site passes: [instance_id] or inst_ids.
WaitedInstances ==
  IF Site.insts = "inst_ids"
  THEN { locals.inst_ids[i] : i \in 1..Len(locals.inst_ids) }
  ELSE { locals[Site.insts] }

\* The waiter returns once every instance it was given is running.
wait_instance_running ==
  /\ At("wait_instance_running")
  /\ WaiterCall(WaitedInstances, [cloud EXCEPT !.running = @ \cup WaitedInstances])

\* describe_instances(...)["Reservations"][0]["Instances"][0].get("PublicIpAddress")
describe_instances ==
  /\ At("describe_instances")
  /\ \E ins \in cloud.instances :
       /\ ins.InstanceId = locals[Site.inst]
       /\ ProviderCall({locals[Site.inst]}, {},
            cloud, [locals EXCEPT ![Site.dst] = ins.PublicIpAddress])

----------------------------------------------------------------------------
\* The load balancer.

\* The states in which the provider can report a registered target.
TargetHealthStates == {"initial", "unused", "healthy", "unhealthy"}

create_target_group ==
  /\ At("create_target_group")
  /\ LET arn == NewId("tg", cloud.tgs)
     IN ProviderCall({locals[Site.vpc]}, {arn},
          [cloud EXCEPT !.tgs = @ \cup
             {[TargetGroupArn |-> arn, VpcId |-> locals[Site.vpc], Protocol |-> "HTTP",
               Port |-> Site.port]}],
          [locals EXCEPT ![Site.dst] = arn])

\* register_targets registers the instances; it does not wait for, or look
\* at, their health, which is whatever the provider's health checks say.
register_targets ==
  /\ At("register_targets")
  /\ LET ids == { locals.inst_ids[i] : i \in 1..Len(locals.inst_ids) }
     IN \E health \in [ids -> TargetHealthStates] :
          ProviderCall({locals[Site.tg]} \cup ids, {},
            [cloud EXCEPT !.targets = @ \cup
               { [TargetGroupArn |-> locals[Site.tg], Id |-> i, Port |-> Site.port,
                  Health |-> health[i]] : i \in ids }],
            locals)

create_load_balancer ==
  /\ At("create_load_balancer")
  /\ LET arn  == NewId("alb", cloud.lbs)
         nets == { locals[Site.subnets[i]] : i \in 1..Len(Site.subnets) }
         alb  == [LoadBalancerArn |-> arn, DNSName |-> <<"dns", arn[2]>>]
     IN ProviderCall(nets \cup {locals[Site.sg]}, {arn},
          [cloud EXCEPT !.lbs = @ \cup
             {[LoadBalancerArn |-> arn, Subnets |-> nets,
               SecurityGroups |-> {locals[Site.sg]}, Scheme |-> "internet-facing"]}],
          [locals EXCEPT ![Site.dst] = alb])

create_listener ==
  /\ At("create_listener")
  /\ ProviderCall({locals[Site.lb].LoadBalancerArn, locals[Site.tg]}, {},
       [cloud EXCEPT !.listeners = @ \cup
          {[LoadBalancerArn |-> locals[Site.lb].LoadBalancerArn, Protocol |-> "HTTP",
            Port |-> Site.port, Type |-> "forward",
            TargetGroupArn |-> locals[Site.tg]]}],
       locals)

----------------------------------------------------------------------------
\* The end of a run, and the next one.

\* The final prints: the public address (vpc.py) or the DNS name of the
\* load balancer (vpc-loadbalancer.py); main() then returns.
print_results ==
  /\ At("print_results")
  /\ status' = "done"
  /\ printed' = [tag |-> "resources",
                 value |-> IF variant = "single" THEN locals.public_ip
                           ELSE locals.alb.DNSName]
  /\ pc' = pc + 1
  /\ UNCHANGED <<variant, locals, log, cloud, keyPairs, keyFile, images>>

\* The operator runs one of the scripts again: a new process, whose calls
\* get identifiers of their own.  The key pair and the key file remain.
StartRun ==
  /\ status # "running"
  /\ variant' \in {"single", "lb"}
  /\ pc' = 1
  /\ status' = "running"
  /\ locals' = NoLocals
  /\ log' = <<>>
  /\ cloud' = NoResources
  /\ images' = <<>>
  /\ printed' = NothingPrinted
  /\ UNCHANGED <<keyPairs, keyFile>>

\* One statement of main().
Step ==
  \/ create_key_pair
  \/ ensure_key_pair
  \/ latest_ubuntu_ami
  \/ create_vpc
  \/ wait_vpc_available
  \/ modify_vpc_attribute
  \/ create_subnet
  \/ modify_subnet_attribute
  \/ create_internet_gateway
  \/ attach_internet_gateway
  \/ create_route_table
  \/ create_route
  \/ associate_route_table
  \/ create_security_group
  \/ authorize_security_group_ingress
  \/ run_instances
  \/ wait_instance_running
  \/ describe_instances
  \/ create_target_group
  \/ register_targets
  \/ create_load_balancer
  \/ create_listener
  \/ print_results

Next == Step \/ StartRun

Spec == Init /\ [][Next]_vars

----------------------------------------------------------------------------
\* Vocabulary of the properties.

DupCode == DuplicateError.code
Failed(e) == e.res \notin {"ok", DupCode}
AtKeyPair == At("create_key_pair") \/ At("ensure_key_pair")
\* the entry the step just taken appended to the log
Issued == Len(log') = Len(log) + 1
Newest == log'[Len(log')]
RunEnded == status \in {"caught", "propagated"}
Kind(id) == id[1]
\* the identifiers returned to the run before its i-th call
ReturnedBefore(i) == UNION { log[j].ret : j \in { k \in 1..(i - 1) : log[k].res = "ok" } }
OkBefore(i, ops) == { j \in 1..(i - 1) : log[j].res = "ok" /\ log[j].op \in ops }
LocalFileHoldsRemoteKey ==
  \E k \in keyPairs : k.KeyName = KEY_NAME /\ keyFile.content = k.KeyMaterial

----------------------------------------------------------------------------
\* C1: key-pair provisioning is idempotent.  An invocation made when the key
\* pair of that name already exists at the provider (as after an earlier
\* invocation) and answered by the provider about the name gets the
\* duplicate-name error, does not raise (main goes on to its next
\* statement), creates nothing and leaves the local key file as it is; and
\* the key file changes only in the invocation that created the key pair
\* remotely.
C1_KeyPairIdempotent ==
  [][ /\ (AtKeyPair /\ Issued /\ KEY_NAME \in KeyNames
            /\ Newest.res \notin { e.code : e \in ProviderErrors })
         => /\ Newest.res = DupCode
            /\ status' = "running"
            /\ pc' = pc + 1
            /\ keyFile' = keyFile
            /\ keyPairs' = keyPairs
      /\ (keyFile' # keyFile)
         => /\ AtKeyPair
            /\ KEY_NAME \notin KeyNames
            /\ KEY_NAME \in { k.KeyName : k \in keyPairs' } ]_vars

\* A second invocation took the duplicate branch and went on, the file
\* written by the first one still in place.
C1_Witness ==
  /\ Len(log) = 2
  /\ log[1].res = DupCode
  /\ status = "running"
  /\ keyFile = [content |-> NewKeyMaterial(KEY_NAME), mode |-> "0o400"]

\* C2: the calls of a run are ordered.  A default route is created only
\* after its gateway was attached; a route table is associated with a
\* subnet only after both were created; an instance is launched only after
\* its security group and its subnet were created.
C2_StrictOrder ==
  \A i \in 1..Len(log) :
    /\ log[i].op = "create_route" =>
         \A g \in { a \in log[i].args : Kind(a) # "rtb" } :
           \E j \in OkBefore(i, {"attach_internet_gateway"}) : g \in log[j].args
    /\ log[i].op = "associate_route_table" =>
         \A a \in log[i].args :
           \E j \in OkBefore(i, {"create_route_table", "create_subnet"}) : a \in log[j].ret
    /\ log[i].op = "run_instances" =>
         \A a \in { x \in log[i].args : Kind(x) # "ami" } :
           \E j \in OkBefore(i, {"create_security_group", "create_subnet"}) : a \in log[j].ret

\* The load-balanced run has routed, associated both subnets and launched
\* both instances.
C2_Witness ==
  /\ variant = "lb"
  /\ Len(locals.inst_ids) = 2
  /\ Cardinality(cloud.assocs) = 2
  /\ cloud.routes # {}

\* C3: every identifier a call is given was returned by an earlier call of
\* the same run that completed (the key-pair name is a name, not an
\* identifier, and is not among the arguments).
C3_IdsWereReturned ==
  \A i \in 1..Len(log) : log[i].args \subseteq ReturnedBefore(i)

\* A whole load-balanced run: every kind of identifier has been passed on.
C3_Witness ==
  /\ variant = "lb"
  /\ status = "done"
  /\ \E i \in 1..Len(log) : log[i].op = "create_listener" /\ Cardinality(log[i].args) = 2

\* C4: latest_ubuntu_ami returns the ImageId of an image of the response
\* whose CreationDate no other image's CreationDate exceeds in string
\* order, and raises when the response holds no image.
C4_LatestImage ==
  \A i \in 1..Len(log) :
    log[i].op = "latest_ubuntu_ami" =>
      /\ log[i].res = "ok" =>
           /\ Len(images) >= 1
           /\ \E k \in 1..Len(images) :
                /\ images[k].ImageId = locals.ami_id
                /\ \A m \in 1..Len(images) :
                     ~ StrLess(images[k].CreationDate, images[m].CreationDate)
      /\ log[i].res = "NoImages" =>
           /\ images = <<>>
           /\ locals.ami_id = None
           /\ RunEnded
      /\ (images = <<>> /\ log[i].ret = {}) => Failed(log[i])

\* The older image comes second and its date is a prefix of the newer one's.
C4_Witness ==
  /\ Len(images) = 2
  /\ images[1].CreationDate = <<1, 0>>
  /\ images[2].CreationDate = <<1>>
  /\ locals.ami_id = <<"ami", 1>>

\* C5: only the duplicate-name error lets a run go on.  A call that failed
\* otherwise is the last call of its run, and the run has ended.
C5_FailureAborts ==
  /\ \A i \in 1..Len(log) : Failed(log[i]) => (i = Len(log) /\ RunEnded)
  /\ RunEnded => ~ ENABLED Step

\* A run went on after the duplicate-name error and was ended by a later failure.
C5_Witness ==
  /\ Len(log) > 3
  /\ log[1].res = DupCode
  /\ log[Len(log)].res = "UnauthorizedOperation"
  /\ RunEnded

\* C6: a single-instance run that reaches its end has created exactly one
\* network, one subnet, one security group and one instance, the instance is
\* running, and the public address it prints is that instance's address, a
\* non-empty string; and a run is never stuck before its end.
C6_SingleInstanceResult ==
  /\ (variant = "single" /\ status = "done") =>
       /\ Cardinality(cloud.vpcs) = 1
       /\ Cardinality(cloud.subnets) = 1
       /\ Cardinality(cloud.sgs) = 1
       /\ Cardinality(cloud.instances) = 1
       /\ \A ins \in cloud.instances :
            /\ ins.InstanceId \in cloud.running
            /\ ins.InstanceId = locals.instance_id
            /\ printed.value = ins.PublicIpAddress
       /\ printed.tag = "resources"
       /\ printed.value \notin {None, EmptyString}
  /\ (variant = "single" /\ status = "running") => ENABLED Step

\* A single-instance run ended and printed the address of its instance.
C6_Witness ==
  /\ variant = "single"
  /\ status = "done"
  /\ printed.value = <<"ip", 1>>
  /\ Len(images) >= 1

\* the parts of C7 that do not concern the health of the targets
LBResult(healthStates) ==
  /\ Cardinality(cloud.vpcs) = 1
  /\ Cardinality(cloud.subnets) = 2
  /\ \A s, t \in cloud.subnets :
       s.SubnetId # t.SubnetId => s.AvailabilityZone # t.AvailabilityZone
  /\ Cardinality(cloud.instances) = 2
  /\ Cardinality(cloud.tgs) = 1
  /\ \A ins \in cloud.instances :
       /\ ins.InstanceId \in cloud.running
       /\ \E t \in cloud.targets :
            /\ t.Id = ins.InstanceId
            /\ t.TargetGroupArn = locals.tg_arn
            /\ t.Health \in healthStates
  /\ \A g \in cloud.tgs : g.TargetGroupArn = locals.tg_arn
  /\ Cardinality(cloud.listeners) = 1
  /\ \A l \in cloud.listeners :
       /\ l.Port = HTTP_PORT
       /\ l.Type = "forward"
       /\ l.TargetGroupArn = locals.tg_arn

\* C7 as stated: a load-balanced run that reaches its end has created one
\* network, two subnets in distinct zones, two instances that are both
\* healthy registered targets of the target group, and one listener on
\* port 80 forwarding to that target group.
C7_AsStated ==
  (variant = "lb" /\ status = "done") => LBResult({"healthy"})

\* C7 amended: the same, the two instances being registered targets of the
\* target group in whatever health state the provider reports.
C7_LoadBalancedResult ==
  (variant = "lb" /\ status = "done") => LBResult(TargetHealthStates)

\* A load-balanced run ended with a registered target not yet healthy.
C7_Witness ==
  /\ variant = "lb"
  /\ status = "done"
  /\ \E t \in cloud.targets : t.Health = "initial"

\* C8: when a launch fails, the step deletes nothing and rebinds nothing:
\* the resources are those allocated before it, and the locals still hold
\* the identifiers of the network and of every security group created.
C8_FailedLaunchKeepsReferences ==
  [][ (At("run_instances") /\ Issued /\ Failed(Newest)) =>
        /\ cloud' = cloud
        /\ locals' = locals
        /\ status' \in {"caught", "propagated"}
        /\ { v.VpcId : v \in cloud'.vpcs } = { locals'.vpc_id }
        /\ { g.GroupId : g \in cloud'.sgs } =
             (IF variant = "single" THEN { locals'.sg_id }
              ELSE { locals'.sg_ec2, locals'.sg_alb })
        /\ UNION { log'[j].ret : j \in OkBefore(Len(log'), {"create_vpc", "create_security_group"}) }
             \subseteq ({ v.VpcId : v \in cloud'.vpcs } \cup { g.GroupId : g \in cloud'.sgs }) ]_vars

\* The second launch of a load-balanced run failed after the first succeeded.
C8_Witness ==
  /\ variant = "lb"
  /\ RunEnded
  /\ Len(locals.inst_ids) = 1
  /\ log[Len(log)].op = "run_instances"
  /\ Failed(log[Len(log)])
  /\ Cardinality(cloud.sgs) = 2

\* C9: in vpc.py every failure of a step of main, a provider error or any
\* other exception, is caught and printed and main returns; in
\* vpc-loadbalancer.py it leaves main uncaught.
C9_TopLevelHandling ==
  /\ variant = "single" =>
       /\ status # "propagated"
       /\ (Len(log) > 0 /\ Failed(log[Len(log)])) =>
            /\ status = "caught"
            /\ printed.tag =
                 (IF log[Len(log)].res = "UnauthorizedOperation"
                  THEN "AWS error:" ELSE "Unexpected error:")
       /\ status = "caught" => printed.tag \in {"AWS error:", "Unexpected error:"}
  /\ variant = "lb" =>
       /\ status # "caught"
       /\ (Len(log) > 0 /\ Failed(log[Len(log)])) =>
            (status = "propagated" /\ printed = NothingPrinted)

\* The zero-image error of vpc.py was caught and printed.
C9_Witness ==
  /\ variant = "single"
  /\ status = "caught"
  /\ printed.tag = "Unexpected error:"
  /\ log[Len(log)].res = "NoImages"

\* C10: whenever an instance has been launched with the key-pair name, the
\* local key file holds the private key of the remote key pair of that name.
C10_LaunchedKeyIsOnDisk ==
  \A i \in 1..Len(log) :
    (log[i].op = "run_instances" /\ log[i].res = "ok") => LocalFileHoldsRemoteKey

====
